---------------------------- MODULE Spec2Model ----------------------------
(***************************************************************************)
(* Model of src/translator.py (CLI Translator).                            *)
(*                                                                         *)
(* Every routine of the module is defined with a documentation string and  *)
(* the body `pass`.  In Python such a function evaluates its arguments,    *)
(* touches no file, makes no request, raises nothing and returns None.     *)
(* The operators below are those bodies; the actions are calls of the      *)
(* routines from a caller, which records the call and what came back.      *)
(* Files on disk and the remote provider are the environment: Init draws   *)
(* them from bounded sets and only the routines could change them.         *)
(***************************************************************************)
EXTENDS Integers, Sequences, FiniteSets, TLC

(***************************************************************************)
(* Bounds of the model.                                                    *)
(***************************************************************************)
MaxHistory == 2      \* largest max_history drawn for the configuration
MaxLength  == 1      \* maximum text length and file chunk size (5000, scaled down)
MaxChunk   == 2      \* largest chunk_size passed to chunk_text
MaxFailAt  == 1      \* the provider may fail on its 1st .. MaxFailAt-th request
MaxLimit   == 2      \* largest limit passed to get_history

Chars == {"a", " ", "."}          \* a letter, a word boundary, a sentence end
PlainChars == {"a", " "}
MaxTextLen == MaxLength + 1       \* long enough to exceed the maximum length
TextsOver(chars) == UNION {[1..n -> chars] : n \in 0..MaxTextLen}
Texts == TextsOver(Chars)         \* texts given to chunk_text
Phrases == TextsOver(PlainChars)  \* texts given to translate_text, file contents

SourceLangs == {"en", "auto", "xx"}
TargetLangs == {"es", "en"}

\* History records: the fields get_history filters on.
Records == [source_lang : {"en"}, target_lang : {"es", "fr"}]

Histories(n) == UNION {[1..k -> Records] : k \in 0..n}

\* Contents of the configuration file.
Configs == [max_history : 0..MaxHistory, history_enabled : BOOLEAN]

(***************************************************************************)
(* Python values handed back to a caller.                                  *)
(***************************************************************************)
None == [kind |-> "None"]
NoException == "none"

Bool(b) == [kind |-> "bool", val |-> b]
List(s) == [kind |-> "list", val |-> s]

\* What a routine did: the value returned, the exception raised, the files as
\* the routine left them and the requests it sent to the provider.
Outcome(ret, raised, h, out, reqs) ==
    [ret |-> ret, raised |-> raised, history |-> h, out_file |-> out, net |-> reqs]

VARIABLES
    history,        \* the history file: records, oldest first
    config_file,    \* the configuration file: max_history, history_enabled
    history_writable, \* whether the history file can be written
    provider,       \* the remote provider: which requests it would fail
    out_file,       \* the file at the output path of translate_file
    net,            \* requests sent to the provider by the last call
    call            \* the last call: routine, arguments, return, exception

vars == <<history, config_file, history_writable, provider, out_file, net, call>>

env == <<config_file, history_writable, provider>>

Absent == [kind |-> "absent"]

(***************************************************************************)
(* The routines.  Each body is `pass`.                                     *)
(***************************************************************************)
\* mutation of save_to_history: appends and never limits the size
save_to_history_unbounded(h, translation_record) ==
    Outcome(Bool(TRUE), NoException, Append(h, translation_record), out_file, <<>>)

save_to_history(h, translation_record) ==
    Outcome(None, NoException, h, out_file, <<>>)

\* A user interrupt (KeyboardInterrupt) that arrives while save_to_history
\* runs leaves through the body `pass`: nothing has been written.
\* mutation: the history file was opened for writing and is left cut short
save_to_history_torn(h, translation_record) ==
    Outcome(None, "KeyboardInterrupt", <<>>, out_file, <<>>)

save_to_history_interrupted(h, translation_record) ==
    Outcome(None, "KeyboardInterrupt", h, out_file, <<>>)

\* save_config and the same call interrupted: the configuration file as the
\* call leaves it.
save_config(cf, config) ==
    [ret |-> None, raised |-> NoException, config_file |-> cf]

save_config_interrupted(cf, config) ==
    [ret |-> None, raised |-> "KeyboardInterrupt", config_file |-> cf]

get_history(h, limit, filter_lang) ==
    Outcome(None, NoException, h, out_file, <<>>)

clear_history(h) ==
    Outcome(None, NoException, h, out_file, <<>>)

validate_language_code(lang_code) == None

translate_text(text, source_lang, target_lang) ==
    Outcome(None, NoException, history, out_file, <<>>)

chunk_text(text, chunk_size) == None

translate_file(content, source_lang, target_lang) ==
    Outcome(None, NoException, history, out_file, <<>>)

\* main and handle_error: `pass`.  handle_error prints nothing.
main(argv) == [ret |-> None, raised |-> NoException]

handle_error(error) == ""

\* The script's entry point: what the process prints and exits with, given
\* what main raised.  Falling off the end of the script exits with 0.
EntryPoint(raised) ==
    IF raised = "KeyboardInterrupt"
    THEN [exit_code |-> 0, message |-> "Translation cancelled by user."]
    ELSE IF raised # NoException
         THEN [exit_code |-> 1, message |-> handle_error(raised)]
         ELSE [exit_code |-> 0, message |-> ""]

\* Command lines: a text to translate, or arguments that are not valid.
Argvs == {"text", "invalid"}

(***************************************************************************)
(* State after construction: nothing has been called; the files and the    *)
(* provider are whatever the user's machine holds.                         *)
(***************************************************************************)
Init ==
    /\ config_file \in Configs
    /\ history \in Histories(config_file.max_history)
    /\ history_writable \in BOOLEAN
    /\ provider \in [detect_fails : BOOLEAN, fail_at : 0..MaxFailAt]
    /\ out_file = Absent
    /\ net = <<>>
    /\ call = [op |-> "start"]

\* The caller takes the outcome of a routine.
Returns(o, c) ==
    /\ history' = o.history
    /\ out_file' = o.out_file
    /\ net' = o.net
    /\ call' = [c EXCEPT !.ret = o.ret, !.raised = o.raised]
    /\ UNCHANGED env

SaveToHistory ==
    \E rec \in Records :
        Returns(save_to_history(history, rec),
                [op |-> "save_to_history", rec |-> rec,
                 ret |-> None, raised |-> NoException])

SaveToHistoryInterrupted ==
    \E rec \in Records :
        Returns(save_to_history_interrupted(history, rec),
                [op |-> "save_to_history", rec |-> rec,
                 ret |-> None, raised |-> NoException])

\* Two appends that overlap: both calls of save_to_history are entered before
\* either returns (two sessions of the tool on the same history file).
BeginAppends ==
    \E r1 \in Records, r2 \in Records :
        /\ call' = [op |-> "overlapping_appends", recs |-> <<r1, r2>>,
                    returned |-> {}, before |-> history,
                    ret |-> None, raised |-> NoException]
        /\ net' = <<>>
        /\ UNCHANGED <<history, out_file, env>>

\* One of the two overlapping appends runs its body and returns.
AppendReturns ==
    /\ call.op = "overlapping_appends"
    /\ \E i \in {1, 2} \ call.returned :
          LET o == save_to_history(history, call.recs[i])
          IN  /\ history' = o.history
              /\ out_file' = o.out_file
              /\ net' = o.net
              /\ call' = [call EXCEPT !.returned = @ \cup {i},
                                      !.ret = o.ret, !.raised = o.raised]
              /\ UNCHANGED env

\* The caller takes the outcome of a save of the configuration.
ConfigReturns(o, config) ==
    /\ config_file' = o.config_file
    /\ call' = [op |-> "save_config", config |-> config,
                ret |-> o.ret, raised |-> o.raised]
    /\ net' = <<>>
    /\ UNCHANGED <<history, history_writable, provider, out_file>>

SaveConfig ==
    \E config \in Configs : ConfigReturns(save_config(config_file, config), config)

SaveConfigInterrupted ==
    \E config \in Configs :
        ConfigReturns(save_config_interrupted(config_file, config), config)

GetHistory ==
    \E limit \in 0..MaxLimit, filter_lang \in {"none", "es"} :
        Returns(get_history(history, limit, filter_lang),
                [op |-> "get_history", limit |-> limit, filter_lang |-> filter_lang,
                 ret |-> None, raised |-> NoException])

ClearHistory ==
    Returns(clear_history(history),
            [op |-> "clear_history", ret |-> None, raised |-> NoException])

TranslateText ==
    \E text \in Phrases, source_lang \in SourceLangs, target_lang \in TargetLangs :
        Returns(translate_text(text, source_lang, target_lang),
                [op |-> "translate_text", text |-> text,
                 source_lang |-> source_lang, target_lang |-> target_lang,
                 ret |-> None, raised |-> NoException])

\* chunk_text and validate_language_code take no file and no provider: the
\* caller gets the value alone.
ChunkText ==
    \E text \in Texts, chunk_size \in 1..MaxChunk :
        /\ call' = [op |-> "chunk_text", text |-> text, chunk_size |-> chunk_size,
                    ret |-> chunk_text(text, chunk_size), raised |-> NoException]
        /\ net' = <<>>
        /\ UNCHANGED <<history, out_file, env>>

ValidateLanguageCode ==
    \E lang_code \in SourceLangs \cup TargetLangs :
        /\ call' = [op |-> "validate_language_code", lang_code |-> lang_code,
                    ret |-> validate_language_code(lang_code), raised |-> NoException]
        /\ net' = <<>>
        /\ UNCHANGED <<history, out_file, env>>

\* A run of the script; the user may interrupt it while main runs.
RunScript ==
    \E argv \in Argvs, interrupted \in BOOLEAN :
        LET m == main(argv)
            raised == IF interrupted THEN "KeyboardInterrupt" ELSE m.raised
            e == EntryPoint(raised)
        IN  /\ call' = [op |-> "__main__", argv |-> argv, ret |-> m.ret,
                        raised |-> raised, exit_code |-> e.exit_code,
                        message |-> e.message]
            /\ net' = <<>>
            /\ UNCHANGED <<history, out_file, env>>

TranslateFile ==
    \E content \in Phrases :
        Returns(translate_file(content, "auto", "en"),
                [op |-> "translate_file", content |-> content,
                 ret |-> None, raised |-> NoException])

Next ==
    \/ SaveToHistory
    \/ SaveToHistoryInterrupted
    \/ BeginAppends
    \/ AppendReturns
    \/ SaveConfig
    \/ SaveConfigInterrupted
    \/ GetHistory
    \/ ClearHistory
    \/ TranslateText
    \/ ChunkText
    \/ ValidateLanguageCode
    \/ TranslateFile
    \/ RunScript

Spec == Init /\ [][Next]_vars

(***************************************************************************)
(* C1.  History size bound: after any sequence of save_to_history calls on *)
(* a store that starts within its bound, the number of stored records is   *)
(* at most max_history.                                                    *)
(***************************************************************************)
C1_HistoryBound == Len(history) <= config_file.max_history

\* save_to_history has been called on a store that is already full
C1_Witness ==
    /\ call.op = "save_to_history"
    /\ config_file.max_history >= 1
    /\ Len(history) = config_file.max_history

(***************************************************************************)
(* Notions the claims are stated with.                                     *)
(***************************************************************************)
RECURSIVE Concat(_)
Concat(ss) == IF ss = <<>> THEN <<>> ELSE Head(ss) \o Concat(Tail(ss))

\* text.strip() is empty
IsBlank(text) == \A i \in 1..Len(text) : text[i] = " "

\* text passes the documented length validation
ValidText(text) == ~IsBlank(text) /\ Len(text) <= MaxLength

\* the language codes the documentation gives as supported
SupportedCodes == {"en", "es", "fr"}

\* the Language Registry, as the code answers
Accepted(lang_code) == validate_language_code(lang_code) = Bool(TRUE)

\* an input the documentation has translate_text take on to the provider
ValidRequest(c) ==
    /\ ValidText(c.text)
    /\ c.source_lang \in SupportedCodes \cup {"auto"}
    /\ c.target_lang \in SupportedCodes
    /\ c.source_lang # c.target_lang

\* what the remote provider answers for a text it translates
ProviderTranslate(text) ==
    [i \in 1..Len(text) |-> IF text[i] = "a" THEN "b" ELSE text[i]]

\* the least number of chunks of at most MaxLength characters a content has
MinChunks(content) == (Len(content) + MaxLength - 1) \div MaxLength

(***************************************************************************)
(* C2.  FIFO eviction: save_to_history on a store holding exactly          *)
(* max_history >= 1 records removes exactly the oldest record, makes the   *)
(* new record the newest and keeps the order of the rest; get_history      *)
(* leaves the store, and so the record evicted next, as it is.             *)
(***************************************************************************)
C2_FifoEviction ==
    [][ /\ ( /\ call'.op = "save_to_history"
             /\ call'.raised = NoException
             /\ config_file.max_history >= 1
             /\ Len(history) = config_file.max_history )
           => history' = Append(Tail(history), call'.rec)
        /\ call'.op = "get_history" => history' = history ]_vars

(***************************************************************************)
(* C3.  Chunking is lossless and bounded: chunk_text(text, C) with C >= 1  *)
(* returns chunks whose concatenation in order is text and each of which   *)
(* has at most C characters.                                               *)
(***************************************************************************)
C3_ChunkLossless ==
    call.op = "chunk_text" =>
        /\ call.ret.kind = "list"
        /\ Concat(call.ret.val) = call.text
        /\ \A i \in 1..Len(call.ret.val) : Len(call.ret.val[i]) <= call.chunk_size

(***************************************************************************)
(* C4.  File translation is all-or-nothing: when the provider fails on     *)
(* chunk i of the file, translate_file writes no output file and returns a *)
(* summary with success = false and i-1 chunks completed.                  *)
(***************************************************************************)
C4_AllOrNothing ==
    ( /\ call.op = "translate_file"
      /\ provider.fail_at >= 1
      /\ provider.fail_at <= MinChunks(call.content) )
    => /\ out_file = Absent
       /\ call.ret.kind = "dict"
       /\ call.ret.success = FALSE
       /\ call.ret.chunks_completed = provider.fail_at - 1

(***************************************************************************)
(* C5.  File translation preserves order: with a provider that answers     *)
(* every request, translate_file sends the chunks of the file one after    *)
(* the other in their order and writes the concatenation of their          *)
(* translations, in that order, to the output file.                        *)
(***************************************************************************)
C5_OrderPreserved ==
    ( /\ call.op = "translate_file"
      /\ provider.fail_at = 0
      /\ call.content # <<>> )
    => /\ \A i \in 1..Len(net) : net[i].kind = "translate"
       /\ Concat([i \in 1..Len(net) |-> net[i].text]) = call.content
       /\ out_file.kind = "file"
       /\ out_file.content
            = Concat([i \in 1..Len(net) |-> ProviderTranslate(net[i].text)])

(***************************************************************************)
(* C6.  Fail-fast validation: translate_text on a text that is blank or    *)
(* longer than the maximum length, or with a language code that is not     *)
(* supported, raises the validation error and sends no request.            *)
(***************************************************************************)
C6_FailFast ==
    ( /\ call.op = "translate_text"
      /\ \/ ~ValidText(call.text)
         \/ call.source_lang \notin SupportedCodes \cup {"auto"}
         \/ call.target_lang \notin SupportedCodes )
    => /\ call.raised = "ValueError"
       /\ net = <<>>

(***************************************************************************)
(* C7.  A translate_text call that succeeds on a valid text with           *)
(* source # target returns a result whose source and target language are   *)
(* both accepted by validate_language_code, also when the source was auto. *)
(***************************************************************************)
C7_ResultCodesValid ==
    ( /\ call.op = "translate_text"
      /\ call.raised = NoException
      /\ ValidText(call.text)
      /\ call.source_lang # call.target_lang )
    => /\ call.ret.kind = "dict"
       /\ Accepted(call.ret.source_language)
       /\ call.ret.source_language # "auto"
       /\ Accepted(call.ret.target_language)

(***************************************************************************)
(* C8.  Detection failure is non-fatal: translate_text with source auto,   *)
(* when the provider's detection fails, still sends the translate request, *)
(* with source en, and reports confidence 0.                               *)
(***************************************************************************)
C8_DetectionNonFatal ==
    ( /\ call.op = "translate_text"
      /\ call.source_lang = "auto"
      /\ ValidRequest(call)
      /\ provider.detect_fails )
    => /\ \E i \in 1..Len(net) :
            net[i].kind = "translate" /\ net[i].source_lang = "en"
       /\ call.ret.kind = "dict" =>
            call.ret.source_language = "en" /\ call.ret.confidence = 0

(***************************************************************************)
(* C9.  A history failure never fails a translation: with history enabled  *)
(* and a provider that answers, translate_text returns the result whether  *)
(* the history file can be written or not, and a failed append leaves the  *)
(* history file as it was.                                                 *)
(***************************************************************************)
C9_HistoryFailureIsolated ==
    [][ ( /\ call'.op = "translate_text"
          /\ ValidRequest(call')
          /\ config_file.history_enabled
          /\ provider.fail_at = 0
          /\ ~provider.detect_fails )
        => /\ call'.raised = NoException
           /\ call'.ret.kind = "dict"
           /\ ~history_writable => history' = history ]_vars

(***************************************************************************)
(* C10.  clear_history empties the store and reports success, from any     *)
(* store and so also from an empty one; get_history right after it         *)
(* returns the empty list.                                                 *)
(***************************************************************************)
C10_ClearThenList ==
    [][ /\ call'.op = "clear_history" =>
              history' = <<>> /\ call'.ret = Bool(TRUE)
        /\ (call.op = "clear_history" /\ call'.op = "get_history") =>
              call'.ret = List(<<>>) ]_vars

(***************************************************************************)
(* C11.  get_history(limit, filter_lang) returns the records newest first, *)
(* at most limit of them; with a filter language only the records whose    *)
(* source or target language is that language, the limit applied to the    *)
(* filtered records.                                                       *)
(***************************************************************************)
Matches(rec, filter_lang) ==
    \/ filter_lang = "none"
    \/ rec.source_lang = filter_lang
    \/ rec.target_lang = filter_lang

Matching(h, filter_lang) == SelectSeq(h, LAMBDA rec : Matches(rec, filter_lang))

Reverse(h) == [i \in 1..Len(h) |-> h[Len(h) + 1 - i]]

Take(h, n) == SubSeq(h, 1, IF n < Len(h) THEN n ELSE Len(h))

C11_ListNewestFirst ==
    call.op = "get_history" =>
        call.ret = List(Take(Reverse(Matching(history, call.filter_lang)), call.limit))

(***************************************************************************)
(* C12.  Atomic persistence: after a write of the history file or of the   *)
(* configuration file that a user interrupt cut short, the file holds the  *)
(* complete previous content or the complete new content, never a part.    *)
(***************************************************************************)
\* the history file as the documentation has an append leave it
Appended(h, rec, max_history) ==
    LET a == Append(h, rec)
    IN  IF Len(a) > max_history
        THEN SubSeq(a, Len(a) - max_history + 1, Len(a))
        ELSE a

C12_AtomicPersistence ==
    [][ /\ (call'.op = "save_to_history" /\ call'.raised = "KeyboardInterrupt")
            => history' \in {history,
                             Appended(history, call'.rec, config_file.max_history)}
        /\ (call'.op = "save_config" /\ call'.raised = "KeyboardInterrupt")
            => config_file' \in {config_file, call'.config} ]_vars

\* an append to a store that holds records has been interrupted
C12_Witness ==
    /\ call.op = "save_to_history"
    /\ call.raised = "KeyboardInterrupt"
    /\ history # <<>>

(***************************************************************************)
(* C13.  Top-level exit codes: the process exits with 0 only on success;   *)
(* every failure that reaches the top level, a user interrupt included,    *)
(* ends in a non-zero exit code and a message: 1 for general errors, 2 for *)
(* invalid arguments.                                                      *)
(***************************************************************************)
C13_ExitCodes ==
    call.op = "__main__" =>
        /\ call.exit_code = 0 =>
              call.raised = NoException /\ call.argv # "invalid"
        /\ call.raised # NoException =>
              call.exit_code # 0 /\ call.message # ""
        /\ call.raised \notin {NoException, "KeyboardInterrupt"} =>
              call.exit_code = 1
        /\ (call.argv = "invalid" /\ call.raised = NoException) =>
              call.exit_code = 2 /\ call.message # ""

(***************************************************************************)
(* C14.  chunk_text(text, C) with C >= 1 returns, and never returns an     *)
(* empty chunk: no chunk at all for the empty text, and only non-empty     *)
(* chunks for any other text.                                              *)
(***************************************************************************)
C14_NoEmptyChunk ==
    call.op = "chunk_text" =>
        /\ call.raised = NoException
        /\ call.ret.kind = "list"
        /\ call.text = <<>> => call.ret.val = <<>>
        /\ call.text # <<>> => call.ret.val # <<>>
        /\ \A i \in 1..Len(call.ret.val) : call.ret.val[i] # <<>>

(***************************************************************************)
(* C15.  Overlapping appends lose nothing: when two appends overlap on a   *)
(* history file with room for both records, the history file ends with     *)
(* both records added, in one order or the other, and within its bound.    *)
(***************************************************************************)
C15_NoLostAppend ==
    ( /\ call.op = "overlapping_appends"
      /\ call.returned = {1, 2}
      /\ Len(call.before) + 2 <= config_file.max_history )
    => /\ \/ history = call.before \o <<call.recs[1], call.recs[2]>>
          \/ history = call.before \o <<call.recs[2], call.recs[1]>>
       /\ Len(history) <= config_file.max_history

=============================================================================
